---- MODULE Spec2Model ----
(***************************************************************************)
(* A model of the Enterprise Linux TUI (src/src/main.rs, src/src/scripts.rs):*)
(* the menu tree built by build_menu_tree, the event loop of run_app with  *)
(* its three application states, get_visible_nodes, and generate_commands. *)
(*                                                                         *)
(* Rc<RefCell<MenuNode>> references are node identifiers (indices into the *)
(* node table menu_tree); a String is a TLA+ string, and a sequence of      *)
(* one-character strings where the code looks at its characters (the sort  *)
(* of the names, the file name typed).  The text returned by               *)
(* generate_commands is the sequence of the pieces pushed onto             *)
(* command_text, in order.                                                 *)
(***************************************************************************)
EXTENDS Integers, Sequences, FiniteSets, TLC

VARIABLES
    state,                \* App.state: "Running" | "Finished" | "Saving"
    menu_tree,            \* App.menu_tree: node id -> MenuNode
    nav_path,             \* App.nav_path: sequence of node ids
    selected_index,       \* App.selected_index
    os_distro,            \* App.os_distro
    reboot_requested,     \* App.reboot_requested
    filename_input,       \* App.filename_input: sequence of characters
    save_status_message,  \* App.save_status_message: <<>> (None) or <<msg>> (Some)
    key,                  \* the last key event read by run_app (<<>> before the first)
    action_after_exit,    \* run_app's return value: <<>> while the loop runs
    script_status,        \* main's outcome of running the returned script
    fs_write              \* the call of fs::write the last step made: <<>> (none),
                          \* or its path and contents

vars == <<state, menu_tree, nav_path, selected_index, os_distro, reboot_requested,
          filename_input, save_status_message, key, action_after_exit, script_status,
          fs_write>>

-----------------------------------------------------------------------------
(* Bounds *)

\* longest file name typed in the Saving popup
MaxNameLen == 1

-----------------------------------------------------------------------------
(* Strings and characters *)

\* the printable ASCII characters, in code order starting at 32 (space); the
\* entry of code 96 stands for the grave accent, which no name contains
AsciiTable ==
    <<" ","!","\"","#","$","%","&","'","(",")","*","+",",","-",".","/",
      "0","1","2","3","4","5","6","7","8","9",":",";","<","=",">","?","@",
      "A","B","C","D","E","F","G","H","I","J","K","L","M","N","O","P","Q",
      "R","S","T","U","V","W","X","Y","Z","[","\\","]","^","_","(grave)",
      "a","b","c","d","e","f","g","h","i","j","k","l","m","n","o","p","q",
      "r","s","t","u","v","w","x","y","z","{","|","}","~">>

\* the byte values of the characters of AsciiTable from place i on
RECURSIVE ByteValuesFrom(_)
ByteValuesFrom(i) ==
    IF i = Len(AsciiTable) THEN AsciiTable[i] :> 31 + i
    ELSE (AsciiTable[i] :> 31 + i) @@ ByteValuesFrom(i + 1)

\* character -> byte value
ByteValues == ByteValuesFrom(1)

\* the byte value of an ASCII character
byte_of(c) == ByteValues[c]

\* char::to_lowercase on an ASCII character: 'A'..'Z' (65..90) move up by 32
char_to_lowercase(c) ==
    LET b == byte_of(c) IN IF b >= 65 /\ b <= 90 THEN AsciiTable[b + 32 - 31] ELSE c

\* String::to_lowercase
to_lowercase(s) == [i \in 1..Len(s) |-> char_to_lowercase(s[i])]

\* Ord for String: lexicographic comparison of the bytes; "Less", "Equal" or "Greater"
RECURSIVE cmp(_, _)
cmp(a, b) ==
    IF a = <<>> /\ b = <<>> THEN "Equal"
    ELSE IF a = <<>> THEN "Less"
    ELSE IF b = <<>> THEN "Greater"
    ELSE IF byte_of(Head(a)) < byte_of(Head(b)) THEN "Less"
    ELSE IF byte_of(Head(a)) > byte_of(Head(b)) THEN "Greater"
    ELSE cmp(Tail(a), Tail(b))

\* a sequence of characters written out as one TLA+ string (Display / "{}")
RECURSIVE Str(_)
Str(s) == IF s = <<>> THEN "" ELSE Head(s) \o Str(Tail(s))

-----------------------------------------------------------------------------
(* The catalog: the nodes build_menu_tree creates, before the sort *)

\* the script functions of the catalog entries below and the text they return
ScriptText ==
    [kvm_base |-> "sudo dnf install -y qemu-kvm libvirt-daemon-config-network libvirt-daemon-kvm",
     install_xen |-> "sudo dnf install -y xen\nsudo systemctl enable xen-qemu-dom0-disk-backend.service",
     net_vpn_ovpn |-> "sudo dnf install -y NetworkManager-openvpn-gnome",
     repo_crb |-> "sudo dnf config-manager --set-enabled crb",
     repo_appstream |-> "sudo dnf config-manager --set-enabled appstream"]

\* item!(name, func, cat): a leaf, not selected
item(name, func, cat) ==
    [kind |-> "Item", name |-> name, script_fn |-> func, selected |-> FALSE, category |-> cat]

\* menu!(name, children...): a sub-menu with its children in the order written
menu(name, children) ==
    [kind |-> "Menu", name |-> name, children |-> children]

\* the root of the tree
MainMenu == 1

\* An excerpt of the tree literal of build_menu_tree, each node with the name,
\* script function, category and child order the source gives it; the node
\* numbers follow the order of the source text.  The excerpt keeps what the
\* catalog's shape offers: General items before and after the Repository items
\* in the sorted order, a sub-menu without children ("XEN Management"), two
\* items with the same name, and children the sort has to reorder (by case too).
MenuLiteral ==
    <<  menu("Main Menu", <<2, 9, 12>>),
        menu("Virtualization", <<3>>),
        menu("Virtualization Engines", <<4, 6, 8>>),
        menu("KVM Core & Tools", <<5>>),
        item("Base Installation", "kvm_base", "General"),
        menu("XEN Core & Tools", <<7>>),
        item("Base Installation", "install_xen", "General"),
        menu("XEN Management", <<>>),
        menu("Networking", <<10>>),
        menu("NetworkManager", <<11>>),
        item("OpenVPN", "net_vpn_ovpn", "General"),
        menu("Repositories", <<13>>),
        menu("Add Repositories (ROCKY LINUX SPECIFIC)", <<14, 15>>),
        item("CRB (code ready builder)", "repo_crb", "Repository"),
        item("appstream", "repo_appstream", "Repository")  >>

\* the characters of the names above, which the sort compares
NameChars ==
    ("Main Menu" :>
        <<"M","a","i","n"," ","M","e","n","u">>)
    @@ ("Virtualization" :>
        <<"V","i","r","t","u","a","l","i","z","a","t","i","o","n">>)
    @@ ("Virtualization Engines" :>
        <<"V","i","r","t","u","a","l","i","z","a","t","i","o","n"," ","E","n",
          "g","i","n","e","s">>)
    @@ ("KVM Core & Tools" :>
        <<"K","V","M"," ","C","o","r","e"," ","&"," ","T","o","o","l","s">>)
    @@ ("Base Installation" :>
        <<"B","a","s","e"," ","I","n","s","t","a","l","l","a","t","i","o",
          "n">>)
    @@ ("XEN Core & Tools" :>
        <<"X","E","N"," ","C","o","r","e"," ","&"," ","T","o","o","l","s">>)
    @@ ("XEN Management" :>
        <<"X","E","N"," ","M","a","n","a","g","e","m","e","n","t">>)
    @@ ("Networking" :>
        <<"N","e","t","w","o","r","k","i","n","g">>)
    @@ ("NetworkManager" :>
        <<"N","e","t","w","o","r","k","M","a","n","a","g","e","r">>)
    @@ ("OpenVPN" :>
        <<"O","p","e","n","V","P","N">>)
    @@ ("Repositories" :>
        <<"R","e","p","o","s","i","t","o","r","i","e","s">>)
    @@ ("Add Repositories (ROCKY LINUX SPECIFIC)" :>
        <<"A","d","d"," ","R","e","p","o","s","i","t","o","r","i","e","s"," ",
          "(","R","O","C","K","Y"," ","L","I","N","U","X"," ","S","P","E","C",
          "I","F","I","C",")">>)
    @@ ("CRB (code ready builder)" :>
        <<"C","R","B"," ","(","c","o","d","e"," ","r","e","a","d","y"," ","b",
          "u","i","l","d","e","r",")">>)
    @@ ("appstream" :>
        <<"a","p","p","s","t","r","e","a","m">>)

\* String::chars of a name
chars(name) == NameChars[name]

\* the node identifiers
Nodes == DOMAIN MenuLiteral

-----------------------------------------------------------------------------
(* sort_menu_recursively *)

\* (mutant) the comparison without to_lowercase: by the names as written
compare_names_case_sensitive(tree, a, b) == cmp(chars(tree[a].name), chars(tree[b].name))

\* the comparison closure of children.sort_by: by lower-cased name
compare_names(tree, a, b) ==
    cmp(to_lowercase(chars(tree[a].name)), to_lowercase(chars(tree[b].name)))

\* insert x into the sorted sequence s after every element that is not Greater
\* than it (equal elements keep their order: slice::sort_by is stable)
RECURSIVE insert_sorted(_, _, _)
insert_sorted(tree, s, x) ==
    IF s = <<>> THEN <<x>>
    ELSE IF compare_names(tree, x, Head(s)) = "Less" THEN <<x>> \o s
    ELSE <<Head(s)>> \o insert_sorted(tree, Tail(s), x)

\* children.sort_by(...): a stable sort
RECURSIVE sort_by(_, _)
sort_by(tree, s) ==
    IF s = <<>> THEN <<>>
    ELSE insert_sorted(tree, sort_by(tree, SubSeq(s, 1, Len(s) - 1)), s[Len(s)])

\* sort_menu_recursively(node): sorts the children of a Menu, then each child in turn
RECURSIVE sort_menu_recursively(_, _)
RECURSIVE sort_children_from(_, _, _)
sort_children_from(tree, children, i) ==
    IF i > Len(children) THEN tree
    ELSE sort_children_from(sort_menu_recursively(tree, children[i]), children, i + 1)

sort_menu_recursively(tree, node) ==
    IF tree[node].kind = "Menu"
    THEN LET sorted == sort_by(tree, tree[node].children)
             t1 == [tree EXCEPT ![node].children = sorted]
         IN sort_children_from(t1, sorted, 1)
    ELSE tree

\* build_menu_tree: the literal, sorted
build_menu_tree == sort_menu_recursively(MenuLiteral, MainMenu)

-----------------------------------------------------------------------------
(* The application record *)

\* OsDistribution
OsDistribution == {"Rhel", "Centos", "Rocky", "AlmaLinux", "Unknown"}

\* detect_os: what /etc/os-release of the machine says; the catalog's
\* repository scripts are the Rocky Linux ones, and the run is on such a machine
detect_os == {"Rocky"}

\* the fields of App as one record
App ==
    [state |-> state, menu_tree |-> menu_tree, nav_path |-> nav_path,
     selected_index |-> selected_index, os_distro |-> os_distro,
     reboot_requested |-> reboot_requested, filename_input |-> filename_input,
     save_status_message |-> save_status_message]

\* App::new, for the distribution detect_os found
new(os) ==
    [state |-> "Running", menu_tree |-> build_menu_tree, nav_path |-> <<MainMenu>>,
     selected_index |-> 0, os_distro |-> os, reboot_requested |-> FALSE,
     filename_input |-> <<>>, save_status_message |-> <<>>]

\* usize::min
min(a, b) == IF a <= b THEN a ELSE b

-----------------------------------------------------------------------------
(* get_visible_nodes *)

\* The box-drawing characters of the tree display are written in ASCII here:
\* "\\-" is the corner connector, "|-" the tee connector and "|  " the
\* vertical continuation bar.

\* build_tree_display(items, node, prefix, is_last): the entries of node and,
\* for a Menu, of everything below it, appended to items
RECURSIVE build_tree_display(_, _, _, _, _)
RECURSIVE build_tree_display_children(_, _, _, _, _)
build_tree_display_children(tree, items, children, new_prefix, i) ==
    IF i > Len(children) THEN items
    ELSE build_tree_display_children(
            tree,
            build_tree_display(tree, items, children[i], new_prefix, i = Len(children)),
            children, new_prefix, i + 1)

build_tree_display(tree, items, node, prefix, is_last) ==
    LET connector == IF is_last THEN "\\-" ELSE "|-"
        line == prefix \o connector
        n == tree[node]
    IN IF n.kind = "Menu"
       THEN LET pushed == Append(items, [text |-> line \o " " \o n.name \o " >",
                                         node |-> node])
                new_prefix == IF is_last THEN prefix \o "   " ELSE prefix \o "|  "
            IN build_tree_display_children(tree, pushed, n.children, new_prefix, 1)
       ELSE LET prefix_icon == IF n.selected THEN "[x]" ELSE "[ ]"
            IN Append(items, [text |-> line \o " " \o prefix_icon \o " " \o n.name,
                              node |-> node])

\* the entry of one child in a sub-menu's simple list
submenu_entry(tree, child, is_last) ==
    LET connector == IF is_last THEN "\\-" ELSE "|-"
        n == tree[child]
    IN IF n.kind = "Menu"
       THEN [text |-> connector \o " " \o n.name \o " >", node |-> child]
       ELSE LET prefix_icon == IF n.selected THEN "[x]" ELSE "[ ]"
            IN [text |-> connector \o " " \o prefix_icon \o " " \o n.name,
                node |-> child]

\* (mutant) the root's list without the recursion: the direct children only
get_visible_nodes_flat(tree, path) ==
    LET n == tree[path[Len(path)]]
    IN IF n.kind = "Menu"
       THEN [i \in 1..Len(n.children) |->
                submenu_entry(tree, n.children[i], i = Len(n.children))]
       ELSE <<>>

\* get_visible_nodes(nav_path): the (text, node) entries of the displayed list
get_visible_nodes(tree, path) ==
    LET current_menu == path[Len(path)]
        n == tree[current_menu]
    IN IF n.kind = "Menu"
       THEN IF Len(path) = 1
            THEN build_tree_display_children(tree, <<>>, n.children, "", 1)
            ELSE [i \in 1..Len(n.children) |->
                    submenu_entry(tree, n.children[i], i = Len(n.children))]
       ELSE <<>>

-----------------------------------------------------------------------------
(* generate_commands *)

\* MenuNode::get_selected_items_info: the selected items below node, appended to items
RECURSIVE get_selected_items_info(_, _, _)
RECURSIVE get_selected_items_info_children(_, _, _, _)
\* (mutant) the children visited from the last to the first
RECURSIVE get_selected_items_info_children_reversed(_, _, _, _)
get_selected_items_info_children_reversed(tree, children, i, items) ==
    IF i > Len(children) THEN items
    ELSE get_selected_items_info(
            tree, children[i],
            get_selected_items_info_children_reversed(tree, children, i + 1, items))

get_selected_items_info_children(tree, children, i, items) ==
    IF i > Len(children) THEN items
    ELSE get_selected_items_info_children(
            tree, children, i + 1, get_selected_items_info(tree, children[i], items))

get_selected_items_info(tree, node, items) ==
    LET n == tree[node]
    IN IF n.kind = "Item"
       THEN IF n.selected
            THEN Append(items, [name |-> n.name, script_fn |-> n.script_fn,
                                category |-> n.category])
            ELSE items
       ELSE get_selected_items_info_children(tree, n.children, 1, items)

\* (mutant) a filter that keeps every item
filter_category_all(items, cat) == items

\* items.iter().filter(|i| i.category == cat).collect()
filter_category(items, cat) == SelectSeq(items, LAMBDA i : i.category = cat)

\* the pieces of the generated text; a literal of several lines is one piece per line
Shebang == "#!/bin/bash\n"
GeneratedFor(os) == "# Generated for " \o os \o " by Enterprise Linux TUI\n"
SetE == "set -e\n"
NoOptionsSelected == "# No options selected.\n"
RepositoriesHeader == "# --- 1. ENABLING REPOSITORIES ---\n"
GeneralHeader == "# --- 2. APPLYING CONFIGURATIONS ---\n"
RebootBanner == "print_step \"All tasks complete. Rebooting now...\"\n"
SleepCommand == "sleep 3\n"
RebootCommand == "sudo reboot\n"
CompleteBanner == "print_step \"All tasks complete!\"\n"

\* format!("print_step \"{}\"\n", item.name)
print_step(name) == "print_step \"" \o name \o "\"\n"

\* (mutant) the loop of a section without the push of "\n" after the action text
RECURSIVE section_items_without_newline(_)
section_items_without_newline(items) ==
    IF items = <<>> THEN <<>>
    ELSE <<print_step(Head(items).name), ScriptText[Head(items).script_fn]>>
         \o section_items_without_newline(Tail(items))

\* the three pushes of one item in a section's loop
RECURSIVE section_items(_)
section_items(items) ==
    IF items = <<>> THEN <<>>
    ELSE <<print_step(Head(items).name), ScriptText[Head(items).script_fn], "\n">>
         \o section_items(Tail(items))

\* the head of every script: the shebang, the comment naming the distribution,
\* set -e and the print_step helper (its check mark is written [OK])
script_head(a) ==
    <<Shebang, GeneratedFor(a.os_distro), "\n",
      "# Exit immediately if a command exits with a non-zero status.\n", SetE, "\n",
      "# Helper for logging steps\n", "print_step() {\n", "    echo\n",
      "    echo \"[OK] ==> $1\"\n", "}\n", "\n">>

\* (mutant) the sections in the order of the tree's top level: general first
generate_commands_general_first(a, reboot) ==
    LET items == get_selected_items_info(a.menu_tree, MainMenu, <<>>)
        repos == filter_category(items, "Repository")
        general == filter_category(items, "General")
    IN script_head(a)
       \o (IF repos = <<>> /\ general = <<>> THEN <<NoOptionsSelected>> ELSE <<>>)
       \o (IF general # <<>> THEN <<"\n", GeneralHeader>> \o section_items(general) ELSE <<>>)
       \o (IF repos # <<>> THEN <<RepositoriesHeader>> \o section_items(repos) ELSE <<>>)
       \o (IF reboot THEN <<"\n", RebootBanner, SleepCommand, RebootCommand>>
           ELSE IF repos # <<>> \/ general # <<>> THEN <<"\n", CompleteBanner>>
           ELSE <<>>)

\* (mutant) the completion banner whenever no reboot is asked for
generate_commands_always_complete(a, reboot) ==
    LET items == get_selected_items_info(a.menu_tree, MainMenu, <<>>)
        repos == filter_category(items, "Repository")
        general == filter_category(items, "General")
    IN script_head(a)
       \o (IF repos = <<>> /\ general = <<>> THEN <<NoOptionsSelected>> ELSE <<>>)
       \o (IF repos # <<>> THEN <<RepositoriesHeader>> \o section_items(repos) ELSE <<>>)
       \o (IF general # <<>> THEN <<"\n", GeneralHeader>> \o section_items(general) ELSE <<>>)
       \o (IF reboot THEN <<"\n", RebootBanner, SleepCommand, RebootCommand>>
           ELSE <<"\n", CompleteBanner>>)

\* (mutant) the reboot commands only when something is selected
generate_commands_reboot_with_selection(a, reboot) ==
    LET items == get_selected_items_info(a.menu_tree, MainMenu, <<>>)
        repos == filter_category(items, "Repository")
        general == filter_category(items, "General")
    IN script_head(a)
       \o (IF repos = <<>> /\ general = <<>> THEN <<NoOptionsSelected>> ELSE <<>>)
       \o (IF repos # <<>> THEN <<RepositoriesHeader>> \o section_items(repos) ELSE <<>>)
       \o (IF general # <<>> THEN <<"\n", GeneralHeader>> \o section_items(general) ELSE <<>>)
       \o (IF repos # <<>> \/ general # <<>>
           THEN IF reboot THEN <<"\n", RebootBanner, SleepCommand, RebootCommand>>
                ELSE <<"\n", CompleteBanner>>
           ELSE <<>>)

\* App::generate_commands(reboot)
generate_commands(a, reboot) ==
    LET items == get_selected_items_info(a.menu_tree, MainMenu, <<>>)
        repos == filter_category(items, "Repository")
        general == filter_category(items, "General")
    IN script_head(a)
       \o (IF repos = <<>> /\ general = <<>> THEN <<NoOptionsSelected>> ELSE <<>>)
       \o (IF repos # <<>> THEN <<RepositoriesHeader>> \o section_items(repos) ELSE <<>>)
       \o (IF general # <<>> THEN <<"\n", GeneralHeader>> \o section_items(general) ELSE <<>>)
       \o (IF reboot THEN <<"\n", RebootBanner, SleepCommand, RebootCommand>>
           ELSE IF repos # <<>> \/ general # <<>> THEN <<"\n", CompleteBanner>>
           ELSE <<>>)

-----------------------------------------------------------------------------
(* ui: what drawing a frame does to the application *)

\* draw_main_ui: keeps selected_index inside the visible list
draw_main_ui(a) ==
    LET visible_nodes == get_visible_nodes(a.menu_tree, a.nav_path)
    IN IF visible_nodes # <<>>
       THEN [a EXCEPT !.selected_index = min(a.selected_index, Len(visible_nodes) - 1)]
       ELSE [a EXCEPT !.selected_index = 0]

\* (mutant) a frame whose script generation takes the selection it collects
\* off the tree
draw_finished_screen_takes_selection(a) ==
    [a EXCEPT !.menu_tree =
                  [n \in DOMAIN a.menu_tree |->
                      IF a.menu_tree[n].kind = "Item"
                      THEN [a.menu_tree[n] EXCEPT !.selected = FALSE]
                      ELSE a.menu_tree[n]],
              !.save_status_message =
                  IF a.filename_input = <<>> THEN <<>> ELSE a.save_status_message]

\* draw_finished_screen: a status message is shown and, once the file name is
\* empty, taken away
draw_finished_screen(a) ==
    IF a.save_status_message # <<>> /\ a.filename_input = <<>>
    THEN [a EXCEPT !.save_status_message = <<>>]
    ELSE a

\* ui
ui(a) ==
    IF a.state \in {"Finished", "Saving"} THEN draw_finished_screen(a) ELSE draw_main_ui(a)

-----------------------------------------------------------------------------
(* run_app: the arms of the key handler *)

\* A key code is <<"Char", c>> or the name of a key: the codes told apart by
\* some arm of run_app, and Tab for a key no arm names.

\* the characters typed into the file name popup, where every Char(c) takes
\* the same arm
TypedChars == {"r"}

\* AppState::Running, before the match on the key: the clamp of selected_index
running_clamp(a) ==
    LET visible_len == Len(get_visible_nodes(a.menu_tree, a.nav_path))
    IN IF visible_len > 0
       THEN [a EXCEPT !.selected_index = min(a.selected_index, visible_len - 1)]
       ELSE [a EXCEPT !.selected_index = 0]

\* 'i' and 'r'
running_generate(a, reboot) ==
    [a EXCEPT !.state = "Finished", !.reboot_requested = reboot]

\* Down
running_down(a) ==
    LET visible_nodes == get_visible_nodes(a.menu_tree, a.nav_path)
    IN IF visible_nodes # <<>>
       THEN [a EXCEPT !.selected_index = (a.selected_index + 1) % Len(visible_nodes)]
       ELSE a

\* (mutant) Up stops at the first entry
running_up_no_wrap(a) ==
    LET visible_nodes == get_visible_nodes(a.menu_tree, a.nav_path)
    IN IF visible_nodes # <<>> /\ a.selected_index > 0
       THEN [a EXCEPT !.selected_index = a.selected_index - 1]
       ELSE a

\* Up
running_up(a) ==
    LET visible_nodes == get_visible_nodes(a.menu_tree, a.nav_path)
    IN IF visible_nodes # <<>>
       THEN [a EXCEPT !.selected_index =
                (a.selected_index + Len(visible_nodes) - 1) % Len(visible_nodes)]
       ELSE a

\* (mutant) Enter on an Item selects it instead of flipping the flag
running_enter_selects(a) ==
    LET visible_nodes == get_visible_nodes(a.menu_tree, a.nav_path)
    IN IF a.selected_index < Len(visible_nodes)
       THEN LET selected_rc == visible_nodes[a.selected_index + 1].node
            IN IF a.menu_tree[selected_rc].kind = "Menu"
               THEN [a EXCEPT !.nav_path = Append(a.nav_path, selected_rc),
                              !.selected_index = 0]
               ELSE [a EXCEPT !.menu_tree[selected_rc].selected = TRUE]
       ELSE a

\* (mutant) Enter on a Menu pushes it and leaves selected_index as it was
running_enter_keeps_index(a) ==
    LET visible_nodes == get_visible_nodes(a.menu_tree, a.nav_path)
    IN IF a.selected_index < Len(visible_nodes)
       THEN LET selected_rc == visible_nodes[a.selected_index + 1].node
            IN IF a.menu_tree[selected_rc].kind = "Menu"
               THEN [a EXCEPT !.nav_path = Append(a.nav_path, selected_rc)]
               ELSE [a EXCEPT !.menu_tree[selected_rc].selected =
                                    ~a.menu_tree[selected_rc].selected]
       ELSE a

\* (mutant) Enter on an Item flips every Item that has the name of the one
\* under the cursor
running_enter_by_name(a) ==
    LET visible_nodes == get_visible_nodes(a.menu_tree, a.nav_path)
    IN IF a.selected_index < Len(visible_nodes)
       THEN LET selected_rc == visible_nodes[a.selected_index + 1].node
            IN IF a.menu_tree[selected_rc].kind = "Menu"
               THEN [a EXCEPT !.nav_path = Append(a.nav_path, selected_rc),
                              !.selected_index = 0]
               ELSE [a EXCEPT !.menu_tree =
                        [n \in DOMAIN a.menu_tree |->
                            IF /\ a.menu_tree[n].kind = "Item"
                               /\ a.menu_tree[n].name = a.menu_tree[selected_rc].name
                            THEN [a.menu_tree[n] EXCEPT !.selected = ~@]
                            ELSE a.menu_tree[n]]]
       ELSE a

\* Right | Enter; visible_nodes.get(i) is entry i + 1 of the sequence
running_enter(a) ==
    LET visible_nodes == get_visible_nodes(a.menu_tree, a.nav_path)
    IN IF a.selected_index < Len(visible_nodes)
       THEN LET selected_rc == visible_nodes[a.selected_index + 1].node
            IN IF a.menu_tree[selected_rc].kind = "Menu"
               THEN [a EXCEPT !.nav_path = Append(a.nav_path, selected_rc),
                              !.selected_index = 0]
               ELSE [a EXCEPT !.menu_tree[selected_rc].selected =
                                    ~a.menu_tree[selected_rc].selected]
       ELSE a

\* (mutant) back pops without looking at the length of nav_path
running_back_unguarded(a) ==
    [a EXCEPT !.nav_path = SubSeq(a.nav_path, 1, Len(a.nav_path) - 1),
              !.selected_index = 0]

\* (mutant) back resets selected_index also when nothing is popped
running_back_always_resets(a) ==
    IF Len(a.nav_path) > 1
    THEN [a EXCEPT !.nav_path = SubSeq(a.nav_path, 1, Len(a.nav_path) - 1),
                   !.selected_index = 0]
    ELSE [a EXCEPT !.selected_index = 0]

\* Left | Backspace
running_back(a) ==
    IF Len(a.nav_path) > 1
    THEN [a EXCEPT !.nav_path = SubSeq(a.nav_path, 1, Len(a.nav_path) - 1),
                   !.selected_index = 0]
    ELSE a

\* AppState::Finished: 's'
finished_save(a) == [a EXCEPT !.state = "Saving"]

\* (mutant) going back from the Finished state starts the selection anew
finished_back_clears_selection(a) ==
    [a EXCEPT !.state = "Running",
              !.menu_tree =
                  [n \in DOMAIN a.menu_tree |->
                      IF a.menu_tree[n].kind = "Item"
                      THEN [a.menu_tree[n] EXCEPT !.selected = FALSE]
                      ELSE a.menu_tree[n]]]

\* (mutant) going back from the Finished state opens the root's list
finished_back_to_root(a) ==
    [a EXCEPT !.state = "Running", !.nav_path = <<MainMenu>>, !.selected_index = 0]

\* AppState::Finished: Esc | Backspace
finished_back(a) == [a EXCEPT !.state = "Running"]

\* AppState::Saving: Char(c)
saving_char(a, c) == [a EXCEPT !.filename_input = Append(a.filename_input, c)]

\* AppState::Saving: Backspace (String::pop leaves an empty string empty)
saving_backspace(a) ==
    IF a.filename_input = <<>> THEN a
    ELSE [a EXCEPT !.filename_input = SubSeq(a.filename_input, 1, Len(a.filename_input) - 1)]

\* AppState::Saving: Esc
saving_esc(a) ==
    [a EXCEPT !.state = "Finished", !.filename_input = <<>>, !.save_status_message = <<>>]

\* (mutant) the script saved is the one without reboot
saving_script_without_reboot(a) == generate_commands(a, FALSE)

\* AppState::Saving: Enter: the script handed to fs::write
saving_script(a) == generate_commands(a, a.reboot_requested)

\* what fs::write can answer for a path: Ok, or Err with the error's text; the
\* empty path cannot be written
FsWriteResults(path) ==
    {[ok |-> FALSE, e |-> "No such file or directory (os error 2)"]}
    \cup (IF path = <<>> THEN {} ELSE {[ok |-> TRUE, e |-> ""]})

\* (mutant) a failed write recorded with the words of a successful one
saving_enter_same_message(a, written) ==
    [a EXCEPT !.save_status_message = <<"Saved to " \o Str(a.filename_input)>>,
              !.state = "Finished",
              !.filename_input = <<>>]

\* AppState::Saving: Enter, with the answer of fs::write
saving_enter(a, written) ==
    [a EXCEPT !.save_status_message =
                  IF written.ok THEN <<"Saved to " \o Str(a.filename_input)>>
                  ELSE <<"Error: " \o written.e>>,
              !.state = "Finished",
              !.filename_input = <<>>]

-----------------------------------------------------------------------------
(* The specification *)

Init ==
    /\ \E os \in detect_os :
          LET a == new(os)
          IN /\ state = a.state
             /\ menu_tree = a.menu_tree
             /\ nav_path = a.nav_path
             /\ selected_index = a.selected_index
             /\ os_distro = a.os_distro
             /\ reboot_requested = a.reboot_requested
             /\ filename_input = a.filename_input
             /\ save_status_message = a.save_status_message
    /\ key = <<>>
    /\ action_after_exit = <<>>
    /\ script_status = "none"
    /\ fs_write = <<>>

\* the value of a field of the App once the App is dropped
Dropped == "dropped"

\* the loop of run_app is running (it has not returned)
Alive == action_after_exit = <<>>

\* one turn of the loop of run_app: the frame is drawn, the key k is read, the
\* arm leaves the application as a2 and returns ret (<<>>: the loop goes on);
\* write is the call of fs::write the arm makes (<<>>: none).
\* run_app takes the App by value: when it returns, the App is dropped
Turn(k, a2, ret, write) ==
    /\ action_after_exit = <<>>
    /\ key' = k
    /\ action_after_exit' = ret
    /\ IF ret = <<>>
       THEN /\ state' = a2.state
            /\ menu_tree' = a2.menu_tree
            /\ nav_path' = a2.nav_path
            /\ selected_index' = a2.selected_index
            /\ os_distro' = a2.os_distro
            /\ reboot_requested' = a2.reboot_requested
            /\ filename_input' = a2.filename_input
            /\ save_status_message' = a2.save_status_message
       ELSE /\ state' = Dropped
            /\ menu_tree' = Dropped
            /\ nav_path' = Dropped
            /\ selected_index' = Dropped
            /\ os_distro' = Dropped
            /\ reboot_requested' = Dropped
            /\ filename_input' = Dropped
            /\ save_status_message' = Dropped
    /\ fs_write' = write
    /\ UNCHANGED script_status

\* a turn of the loop whose arm writes no file
Loop(k, a2, ret) == Turn(k, a2, ret, <<>>)

\* the application as the arms of AppState::Running find it
Drawn == ui(App)
Clamped == running_clamp(Drawn)

RunningQuit ==
    /\ state = "Running"
    /\ Loop(<<"Char", "q">>, Clamped, <<"Quit">>)

RunningGenerate ==
    /\ state = "Running"
    /\ \/ Loop(<<"Char", "i">>, running_generate(Clamped, FALSE), <<>>)
       \/ Loop(<<"Char", "r">>, running_generate(Clamped, TRUE), <<>>)

RunningDown ==
    /\ state = "Running"
    /\ Loop(<<"Down">>, running_down(Clamped), <<>>)

RunningUp ==
    /\ state = "Running"
    /\ Loop(<<"Up">>, running_up(Clamped), <<>>)

RunningEnter ==
    /\ state = "Running"
    /\ \E k \in {<<"Right">>, <<"Enter">>} : Loop(k, running_enter(Clamped), <<>>)

RunningBack ==
    /\ state = "Running"
    /\ \E k \in {<<"Left">>, <<"Backspace">>} : Loop(k, running_back(Clamped), <<>>)

RunningOther ==
    /\ state = "Running"
    /\ \E k \in {<<"Char", "s">>, <<"Esc">>, <<"Tab">>} : Loop(k, Clamped, <<>>)

FinishedQuit ==
    /\ state = "Finished"
    /\ Loop(<<"Char", "q">>, Drawn, <<"Quit">>)

FinishedSave ==
    /\ state = "Finished"
    /\ Loop(<<"Char", "s">>, finished_save(Drawn), <<>>)

FinishedRun ==
    /\ state = "Finished"
    /\ Loop(<<"Char", "r">>, Drawn,
            <<"RunScript", generate_commands(Drawn, Drawn.reboot_requested)>>)

FinishedBack ==
    /\ state = "Finished"
    /\ \E k \in {<<"Esc">>, <<"Backspace">>} : Loop(k, finished_back(Drawn), <<>>)

FinishedOther ==
    /\ state = "Finished"
    /\ \E k \in {<<"Char", "i">>, <<"Down">>, <<"Up">>, <<"Right">>, <<"Enter">>,
                 <<"Left">>, <<"Tab">>} : Loop(k, Drawn, <<>>)

SavingChar ==
    /\ state = "Saving"
    /\ Len(filename_input) < MaxNameLen
    /\ \E c \in TypedChars : Loop(<<"Char", c>>, saving_char(Drawn, c), <<>>)

SavingBackspace ==
    /\ state = "Saving"
    /\ Loop(<<"Backspace">>, saving_backspace(Drawn), <<>>)

SavingEsc ==
    /\ state = "Saving"
    /\ Loop(<<"Esc">>, saving_esc(Drawn), <<>>)

SavingEnter ==
    /\ state = "Saving"
    /\ \E written \in FsWriteResults(Drawn.filename_input) :
          Turn(<<"Enter">>, saving_enter(Drawn, written), <<>>,
               [path |-> Str(Drawn.filename_input), contents |-> saving_script(Drawn)])

SavingOther ==
    /\ state = "Saving"
    /\ \E k \in {<<"Down">>, <<"Up">>, <<"Right">>, <<"Left">>, <<"Tab">>} :
          Loop(k, Drawn, <<>>)

\* an event that is no key event (the mouse is captured, the window resized):
\* the frame is drawn and no arm runs
OtherEvent ==
    /\ Alive
    /\ state' = Drawn.state
    /\ menu_tree' = Drawn.menu_tree
    /\ nav_path' = Drawn.nav_path
    /\ selected_index' = Drawn.selected_index
    /\ os_distro' = Drawn.os_distro
    /\ reboot_requested' = Drawn.reboot_requested
    /\ filename_input' = Drawn.filename_input
    /\ save_status_message' = Drawn.save_status_message
    /\ fs_write' = <<>>
    /\ UNCHANGED <<key, action_after_exit, script_status>>

\* the file main writes the returned script to
script_path == "/tmp/tui_install_script.sh"

\* main, after run_app returned RunScript(script): the script is written to
\* /tmp and run with sudo bash; "error" is a failed write of the file or a
\* failed start of sudo
MainRunScript ==
    /\ action_after_exit # <<>>
    /\ action_after_exit[1] = "RunScript"
    /\ script_status = "none"
    /\ script_status' \in {"success", "failed", "error"}
    /\ fs_write' = [path |-> script_path, contents |-> action_after_exit[2]]
    /\ UNCHANGED <<state, menu_tree, nav_path, selected_index, os_distro,
                   reboot_requested, filename_input, save_status_message, key,
                   action_after_exit>>

Next ==
    \/ RunningQuit
    \/ RunningGenerate
    \/ RunningDown
    \/ RunningUp
    \/ RunningEnter
    \/ RunningBack
    \/ RunningOther
    \/ FinishedQuit
    \/ FinishedSave
    \/ FinishedRun
    \/ FinishedBack
    \/ FinishedOther
    \/ SavingChar
    \/ SavingBackspace
    \/ SavingEsc
    \/ SavingEnter
    \/ SavingOther
    \/ OtherEvent
    \/ MainRunScript

Spec == Init /\ [][Next]_vars

-----------------------------------------------------------------------------
(* Vocabulary of the properties *)

\* the Items of the tree
Items == {n \in Nodes : MenuLiteral[n].kind = "Item"}

\* the Items whose selected flag is set
SelectedItems == {n \in Items : menu_tree[n].selected}

\* the Items of a category
ItemsOf(cat) == {n \in Items : MenuLiteral[n].category = cat}

\* the banner generate_commands writes for an Item
BannerOf(n) == print_step(MenuLiteral[n].name)

\* the places of a piece in a text
PlacesOf(text, piece) == {i \in DOMAIN text : text[i] = piece}

\* the text holds the piece
Contains(text, piece) == PlacesOf(text, piece) # {}

\* the pieces occur in the text in the order given (other pieces may lie between)
RECURSIVE InOrder(_, _)
InOrder(pieces, text) ==
    IF pieces = <<>> THEN TRUE
    ELSE IF text = <<>> THEN FALSE
    ELSE IF Head(pieces) = Head(text) THEN InOrder(Tail(pieces), Tail(text))
    ELSE InOrder(pieces, Tail(text))

\* the node under the cursor of application a, or 0 when the list has no such entry
NodeAt(a) ==
    LET visible_nodes == get_visible_nodes(a.menu_tree, a.nav_path)
    IN IF a.selected_index < Len(visible_nodes)
       THEN visible_nodes[a.selected_index + 1].node
       ELSE 0

\* the loop runs in the Running state with an Item under the cursor
ItemUnderCursor == Alive /\ state = "Running" /\ NodeAt(App) \in Items

\* the children of a node (none for an Item)
ChildrenOf(tree, n) == IF tree[n].kind = "Menu" THEN tree[n].children ELSE <<>>

\* one full turn of the loop in the Running state with Right or Enter
EnterTurn(a) == running_enter(running_clamp(ui(a)))

\* one full turn of the loop in the Running state with Left or Backspace
BackTurn(a) == running_back(running_clamp(ui(a)))

-----------------------------------------------------------------------------
(* C1 *)

\* C1: whatever is selected and whatever reboot is, every selected Item has
\* its banner in the generated text, and the banner of every selected
\* Repository item stands before the banner of every selected General item.
RepositoryBannersFirst ==
    Alive =>
        \A reboot \in BOOLEAN :
            LET text == generate_commands(App, reboot)
            IN /\ \A n \in SelectedItems : Contains(text, BannerOf(n))
               /\ \A r \in SelectedItems \cap ItemsOf("Repository") :
                  \A g \in SelectedItems \cap ItemsOf("General") :
                  \A i \in PlacesOf(text, BannerOf(r)) :
                  \A j \in PlacesOf(text, BannerOf(g)) : i < j

\* a General item (OpenVPN, 11) that the traversal meets before a Repository
\* item (appstream, 15) is selected together with it, and a General item
\* after both (Base Installation, 5) too
RepositoryAfterGeneralSelected ==
    /\ Alive
    /\ key \in {<<"Right">>, <<"Enter">>}
    /\ SelectedItems = {5, 11, 15}
    /\ LET order == get_selected_items_info(menu_tree, MainMenu, <<>>)
       IN /\ order[1].category = "General"
          /\ order[2].category = "Repository"
          /\ order[3].category = "General"

-----------------------------------------------------------------------------
(* C2 *)

\* C2: in the Running state with an Item under the cursor, two turns of the
\* loop with Enter (or Right) leave the Item's selected flag and the
\* generated text, for either value of reboot, as they were.
ToggleTwiceRestores ==
    ItemUnderCursor =>
        LET target == NodeAt(App)
            twice == EnterTurn(EnterTurn(App))
        IN /\ NodeAt(EnterTurn(App)) = target
           /\ twice.menu_tree[target].selected = menu_tree[target].selected
           /\ \A reboot \in BOOLEAN :
                 generate_commands(twice, reboot) = generate_commands(App, reboot)

\* Enter has just selected the Item under the cursor, another Item being selected
ToggledItemUnderCursor ==
    /\ ItemUnderCursor
    /\ key = <<"Enter">>
    /\ menu_tree[NodeAt(App)].selected
    /\ Cardinality(SelectedItems) = 2

-----------------------------------------------------------------------------
(* C3 *)

\* C3: while the loop runs, selected_index is below the length of the visible
\* list when the list has entries, and 0 when it has none.
SelectedIndexInRange ==
    Alive =>
        LET visible_len == Len(get_visible_nodes(menu_tree, nav_path))
        IN /\ selected_index \in Nat
           /\ visible_len > 0 => selected_index < visible_len
           /\ visible_len = 0 => selected_index = 0

\* Enter on a Menu without children, taken from a place other than the first
\* of the root's list
InsideEmptyMenu ==
    /\ Alive
    /\ key \in {<<"Right">>, <<"Enter">>}
    /\ Len(nav_path) > 1
    /\ get_visible_nodes(menu_tree, nav_path) = <<>>
    /\ selected_index = 0

-----------------------------------------------------------------------------
(* C4 *)

\* C4: while the loop runs, nav_path is not empty and its first element is
\* the root, the Menu named "Main Menu".
NavPathStartsAtRoot ==
    Alive =>
        /\ Len(nav_path) >= 1
        /\ nav_path[1] = MainMenu
        /\ menu_tree[nav_path[1]].kind = "Menu"
        /\ menu_tree[nav_path[1]].name = "Main Menu"

\* back has acted and nav_path is the root alone
BackReachedRoot ==
    /\ Alive
    /\ state = "Running"
    /\ key \in {<<"Left">>, <<"Backspace">>}
    /\ nav_path = <<MainMenu>>

-----------------------------------------------------------------------------
(* C5 *)

\* C5: while the loop runs, every element of nav_path after the first is a
\* direct child of the element before it.
NavPathIsChainOfChildren ==
    Alive =>
        \A i \in 2..Len(nav_path) :
            \E j \in DOMAIN ChildrenOf(menu_tree, nav_path[i - 1]) :
                ChildrenOf(menu_tree, nav_path[i - 1])[j] = nav_path[i]

-----------------------------------------------------------------------------
(* C6 *)

\* C6: in the Running state with nav_path of length 1, a turn of the loop with
\* Left or Backspace leaves the length of nav_path and selected_index as
\* they were.
BackAtRootIsNoOp ==
    (Alive /\ state = "Running" /\ Len(nav_path) = 1) =>
        /\ Len(BackTurn(App).nav_path) = Len(nav_path)
        /\ BackTurn(App).selected_index = selected_index

\* back has acted at the root with the cursor below the first entry
BackAtRootBelowFirstEntry ==
    /\ Alive
    /\ state = "Running"
    /\ key \in {<<"Left">>, <<"Backspace">>}
    /\ Len(nav_path) = 1
    /\ selected_index > 0

-----------------------------------------------------------------------------
(* C7 *)

\* the number of nodes, Items and Menus, of the tree below and including node
RECURSIVE CountNodes(_, _)
RECURSIVE CountNodesOfChildren(_, _, _)
CountNodesOfChildren(tree, children, i) ==
    IF i > Len(children) THEN 0
    ELSE CountNodes(tree, children[i]) + CountNodesOfChildren(tree, children, i + 1)

CountNodes(tree, node) == 1 + CountNodesOfChildren(tree, ChildrenOf(tree, node), 1)

\* the list get_visible_nodes gives for the current nav_path
VisibleNow == get_visible_nodes(menu_tree, nav_path)

\* C7 as stated: at the root the list is as long as the count of all Items
\* and Menus of the whole tree, the root Menu among them; below the root it is
\* as long as the last path element has direct children.
VisibleLengthCountsWholeTree ==
    Alive =>
        IF Len(nav_path) = 1
        THEN Len(VisibleNow) = CountNodes(menu_tree, MainMenu)
        ELSE Len(VisibleNow) = Len(ChildrenOf(menu_tree, nav_path[Len(nav_path)]))

\* C7, amended: at the root the list is as long as the count of all Items and
\* Menus of the tree other than the root itself (one entry for every node
\* below the root); below the root it is as long as the last path element
\* has direct children.
VisibleLengthCountsBelowRoot ==
    Alive =>
        LET visible_nodes == VisibleNow
        IN IF Len(nav_path) = 1
           THEN /\ Len(visible_nodes) = CountNodes(menu_tree, MainMenu) - 1
                /\ \A n \in Nodes \ {MainMenu} :
                      \E i \in DOMAIN visible_nodes : visible_nodes[i].node = n
           ELSE Len(visible_nodes) = Len(ChildrenOf(menu_tree, nav_path[Len(nav_path)]))

\* Enter has opened, from the root's list, a Menu whose children have
\* children of their own: the list shows the three direct children only
InsideMenuWithGrandchildren ==
    /\ Alive
    /\ key \in {<<"Right">>, <<"Enter">>}
    /\ nav_path = <<MainMenu, 3>>
    /\ Len(VisibleNow) = 3
    /\ CountNodes(menu_tree, 3) > 4

-----------------------------------------------------------------------------
(* C8 *)

\* the place of child c among the children the literal gives node n
InsertionPlace(n, c) == CHOOSE i \in DOMAIN MenuLiteral[n].children : MenuLiteral[n].children[i] = c

\* C8: in the built tree the children of every Menu are in ascending order of
\* their lower-cased names, and children with equal lower-cased names are in
\* the order of the literal.
ChildrenSortedByLowercaseName ==
    Alive =>
        \A n \in Nodes :
            LET children == ChildrenOf(menu_tree, n)
            IN \A i, j \in DOMAIN children :
                  i < j =>
                     LET order == cmp(to_lowercase(chars(menu_tree[children[i]].name)),
                                      to_lowercase(chars(menu_tree[children[j]].name)))
                     IN /\ order \in {"Less", "Equal"}
                        /\ order = "Equal" =>
                              InsertionPlace(n, children[i]) < InsertionPlace(n, children[j])

\* the sort has acted: the root's children and those of the repositories
\* Menu are not in the order of the literal, the latter because of the case
\* of "CRB" alone
SortReorderedChildren ==
    /\ Alive
    /\ MenuLiteral[MainMenu].children = <<2, 9, 12>>
    /\ menu_tree[MainMenu].children = <<9, 12, 2>>
    /\ MenuLiteral[13].children = <<14, 15>>
    /\ menu_tree[13].children = <<15, 14>>
    /\ cmp(chars(menu_tree[14].name), chars(menu_tree[15].name)) = "Less"

-----------------------------------------------------------------------------
(* C9 *)

\* C9: with no Item selected the text generated without reboot holds the
\* "# No options selected." comment and neither section header nor the
\* "All tasks complete!" banner.
NoSelectionScript ==
    (Alive /\ SelectedItems = {}) =>
        LET text == generate_commands(App, FALSE)
        IN /\ Contains(text, NoOptionsSelected)
           /\ ~Contains(text, RepositoriesHeader)
           /\ ~Contains(text, GeneralHeader)
           /\ ~Contains(text, CompleteBanner)

\* Enter has just taken the last selection away
LastSelectionRemoved ==
    /\ ItemUnderCursor
    /\ key = <<"Enter">>
    /\ SelectedItems = {}

-----------------------------------------------------------------------------
(* C10 *)

\* the banners of Items in a text, in their order
\* the banners generate_commands can write for the Items of the tree
ItemBannerSet == {BannerOf(n) : n \in Items}
ItemBanners(text) == SelectSeq(text, LAMBDA piece : piece \in ItemBannerSet)

\* C10: with one Repository item A and one General item B selected and
\* nothing else, the text generated with reboot holds, in this order, the
\* shebang, set -e, the repository header, A's banner and action text, the
\* general header, B's banner and action text, the reboot banner, the sleep
\* command and the reboot command, and the banners of Items in it are A's
\* and B's, once each.
OneRepositoryOneGeneralWithReboot ==
    (Alive /\ Cardinality(SelectedItems) = 2) =>
        \A A \in SelectedItems \cap ItemsOf("Repository") :
        \A B \in SelectedItems \cap ItemsOf("General") :
            SelectedItems = {A, B} =>
                LET text == generate_commands(App, TRUE)
                IN /\ InOrder(<<Shebang, SetE,
                                RepositoriesHeader, BannerOf(A),
                                ScriptText[menu_tree[A].script_fn],
                                GeneralHeader, BannerOf(B),
                                ScriptText[menu_tree[B].script_fn],
                                RebootBanner, SleepCommand, RebootCommand>>, text)
                   /\ ItemBanners(text) = <<BannerOf(A), BannerOf(B)>>

\* Enter has completed the selection of CRB (14) and of the XEN Base
\* Installation (7), whose name another Item has too
RepositoryAndGeneralSelected ==
    /\ ItemUnderCursor
    /\ key = <<"Enter">>
    /\ SelectedItems = {7, 14}

-----------------------------------------------------------------------------
(* C11 *)

\* the file names the popup can hold
FileNames == UNION {[1..n -> TypedChars] : n \in 0..MaxNameLen}

\* the message a successful save to file name f records
SavedMessage(a, f) ==
    saving_enter([a EXCEPT !.filename_input = f], [ok |-> TRUE, e |-> ""]).save_status_message

\* C11: in the Saving state, Enter with a failing file write leaves the tree
\* (every selected flag), nav_path and selected_index as they were and
\* records a status message that is the success message of no file name.
FailedSaveLeavesTreeAndCursor ==
    (Alive /\ state = "Saving") =>
        LET drawn == Drawn
        IN \A written \in FsWriteResults(drawn.filename_input) :
              ~written.ok =>
                 LET after == saving_enter(drawn, written)
                 IN /\ after.menu_tree = menu_tree
                    /\ after.nav_path = nav_path
                    /\ after.selected_index = selected_index
                    /\ after.state = "Finished"
                    /\ after.save_status_message # <<>>
                    /\ \A f \in FileNames :
                          after.save_status_message # SavedMessage(drawn, f)

\* Enter in the Saving state has just recorded the error of a failed write,
\* with Items selected and the cursor inside a sub-menu below its first entry
FailedSaveRecorded ==
    /\ Alive
    /\ key = <<"Enter">>
    /\ state = "Finished"
    /\ save_status_message = <<"Error: No such file or directory (os error 2)">>
    /\ SelectedItems # {}
    /\ Len(nav_path) > 1
    /\ selected_index > 0

-----------------------------------------------------------------------------
(* C12 *)

\* the states of the interactive menu
AppStates == {"Running", "Finished", "Saving"}

\* C12: once the run of the generated script has failed, the loop of the
\* interactive menu is running again, with the tree, nav_path and
\* selected_index of the application still there.
FailedRunReturnsToMenu ==
    script_status \in {"failed", "error"} =>
        /\ Alive
        /\ state \in AppStates
        /\ menu_tree # Dropped
        /\ nav_path # Dropped
        /\ selected_index # Dropped

-----------------------------------------------------------------------------
(* C13 *)

-----------------------------------------------------------------------------
(* C14 *)

\* C14: in the Running state with an Item under the cursor, a turn of the
\* loop with Enter (or Right) flips the selected flag of that Item and
\* leaves every other node of the tree, the Items of the same name among
\* them, nav_path and selected_index as they were.
EnterFlipsOnlyItemUnderCursor ==
    ItemUnderCursor =>
        LET target == NodeAt(App)
            after == EnterTurn(App)
        IN /\ after.menu_tree[target].selected = ~menu_tree[target].selected
           /\ \A n \in Nodes \ {target} : after.menu_tree[n] = menu_tree[n]
           /\ after.nav_path = nav_path
           /\ after.selected_index = selected_index
           /\ after.state = "Running"

\* Enter has just selected the Base Installation of KVM (5) and the Item of
\* the same name, the Base Installation of XEN (7), is not selected
SelectedOneOfTwoSameNamed ==
    /\ ItemUnderCursor
    /\ key = <<"Enter">>
    /\ NodeAt(App) = 5
    /\ menu_tree[5].name = menu_tree[7].name
    /\ menu_tree[5].selected
    /\ ~menu_tree[7].selected

-----------------------------------------------------------------------------
(* C15 *)

\* C15: a step after which the loop still runs changes the tree, and so any
\* selected flag, only if it is a turn of the loop in the Running state that
\* handles Right or Enter with an Item under the cursor; every other key of
\* the Running state and every key of the Finished and Saving states leaves
\* all the flags as they were.
SelectedChangesOnlyByEnterOnItem ==
    [][(action_after_exit' = <<>> /\ menu_tree' # menu_tree) =>
          /\ state = "Running"
          /\ state' = "Running"
          /\ key' \in {<<"Right">>, <<"Enter">>}
          /\ NodeAt(Clamped) \in Items]_vars

\* Esc has just closed the file name popup, three Items being selected from
\* inside a sub-menu
KeyHandledWithSelection ==
    /\ Alive
    /\ key = <<"Esc">>
    /\ state = "Finished"
    /\ Cardinality(SelectedItems) = 3
    /\ Len(nav_path) > 1

-----------------------------------------------------------------------------
(* C16 *)

\* one full turn of the loop in the Running state with Down, and with Up
DownTurn(a) == running_down(running_clamp(ui(a)))
UpTurn(a) == running_up(running_clamp(ui(a)))

\* C16: in the Running state with a visible list of n > 0 entries and the
\* cursor at i, Down moves the cursor to i + 1, and to 0 from the last
\* entry; Up moves it to i - 1, and to n - 1 from entry 0; Down and then Up
\* brings it back to i; both change nothing else. With an empty list
\* neither changes selected_index.
MoveWrapsAround ==
    (Alive /\ state = "Running") =>
        LET n == Len(VisibleNow)
            i == selected_index
            down == DownTurn(App)
            up == UpTurn(App)
        IN /\ n > 0 =>
                /\ down.selected_index = (i + 1) % n
                /\ down.selected_index = IF i = n - 1 THEN 0 ELSE i + 1
                /\ up.selected_index = (i + n - 1) % n
                /\ up.selected_index = IF i = 0 THEN n - 1 ELSE i - 1
                /\ UpTurn(down).selected_index = i
           /\ n = 0 =>
                /\ down.selected_index = i
                /\ up.selected_index = i
           /\ down = [App EXCEPT !.selected_index = down.selected_index]
           /\ up = [App EXCEPT !.selected_index = up.selected_index]

\* Up has just taken the cursor to the last entry of a list of several
\* entries, which it does from entry 0 only
UpWrappedToLastEntry ==
    /\ Alive
    /\ state = "Running"
    /\ key = <<"Up">>
    /\ Len(VisibleNow) > 1
    /\ selected_index = Len(VisibleNow) - 1

-----------------------------------------------------------------------------
(* C17 *)

\* the nodes of the tree below and including node, in pre-order: a node
\* before its children, the children in their order in the tree
RECURSIVE PreOrder(_, _)
RECURSIVE PreOrderOfChildren(_, _, _)
PreOrderOfChildren(tree, children, i) ==
    IF i > Len(children) THEN <<>>
    ELSE PreOrder(tree, children[i]) \o PreOrderOfChildren(tree, children, i + 1)

PreOrder(tree, node) == <<node>> \o PreOrderOfChildren(tree, ChildrenOf(tree, node), 1)

\* the banners of the selected Items of a category among the nodes of order
BannersInOrder(tree, order, cat) ==
    LET chosen == SelectSeq(order, LAMBDA n : /\ tree[n].kind = "Item"
                                              /\ tree[n].selected
                                              /\ tree[n].category = cat)
    IN [i \in DOMAIN chosen |-> BannerOf(chosen[i])]

\* C17: whatever sub-menu is displayed and whatever reboot is, the banners
\* of Items in the generated text before the general header are those of
\* the selected Repository items in pre-order of the whole tree, and the
\* banners after it those of the selected General items in pre-order, one
\* banner for each selected Item and none for another.
BannersInTraversalOrder ==
    Alive =>
        LET order == PreOrder(menu_tree, MainMenu)
            repos == BannersInOrder(menu_tree, order, "Repository")
            general == BannersInOrder(menu_tree, order, "General")
        IN \A reboot \in BOOLEAN :
              LET text == generate_commands(App, reboot)
                  headers == PlacesOf(text, GeneralHeader)
                  split == IF headers = {} THEN Len(text)
                           ELSE CHOOSE p \in headers : TRUE
              IN /\ Cardinality(headers) <= 1
                 /\ ItemBanners(SubSeq(text, 1, split)) = repos
                 /\ ItemBanners(SubSeq(text, split + 1, Len(text))) = general
                 /\ Len(repos) + Len(general) = Cardinality(SelectedItems)

\* Enter has completed, from inside a sub-menu, the selection of both
\* Repository items, which the sort has put in another order than the
\* literal, and of the two General items of the same name; OpenVPN is not
\* selected
SelectedAcrossSubMenus ==
    /\ ItemUnderCursor
    /\ key = <<"Enter">>
    /\ Len(nav_path) > 1
    /\ SelectedItems = {5, 7, 14, 15}
    /\ BannersInOrder(menu_tree, PreOrder(menu_tree, MainMenu), "Repository") =
          <<BannerOf(15), BannerOf(14)>>

-----------------------------------------------------------------------------
(* C18 *)

\* the last character of a piece is a newline; the first is
EndsWithNewline(piece) == Len(piece) > 0 /\ SubSeq(piece, Len(piece), Len(piece)) = "\n"
StartsWithNewline(piece) == Len(piece) > 0 /\ SubSeq(piece, 1, 1) = "\n"

\* the places of the text where the three pushes for Item n begin: its
\* banner, then its action text as the script function returns it, then "\n"
PushesOf(text, n) ==
    {i \in 1..(Len(text) - 2) :
        /\ text[i] = BannerOf(n)
        /\ text[i + 1] = ScriptText[menu_tree[n].script_fn]
        /\ text[i + 2] = "\n"}

\* an empty line follows the action text at place i + 1: the newline after
\* the text is itself an empty line, or is followed by another newline
BlankLineAfter(text, i) ==
    \/ EndsWithNewline(text[i + 1])
    \/ i + 3 <= Len(text) /\ StartsWithNewline(text[i + 3])

\* C18 as stated: for every selected Item the text holds the banner with
\* the Item's name, then at once the Item's action text, then a blank line.
BannerTextThenBlankLine ==
    Alive =>
        \A reboot \in BOOLEAN :
            LET text == generate_commands(App, reboot)
            IN \A n \in SelectedItems :
                  \E i \in PushesOf(text, n) : BlankLineAfter(text, i)

\* C18, amended: for every selected Item the text holds the banner with the
\* Item's name, then at once the Item's action text, then one newline, which
\* ends the last line of the action text; what follows is the banner of the
\* next Item of the section, with no blank line between, or, after the last
\* Item of a section, a blank line, or the end of the text.
BannerTextThenNewline ==
    Alive =>
        \A reboot \in BOOLEAN :
            LET text == generate_commands(App, reboot)
            IN \A n \in SelectedItems :
                  LET pushes == PushesOf(text, n)
                  IN /\ pushes # {}
                     /\ \A i \in pushes :
                           /\ ~EndsWithNewline(text[i + 1])
                           /\ i + 3 <= Len(text) =>
                                 \/ text[i + 3] \in ItemBannerSet /\ ~BlankLineAfter(text, i)
                                 \/ text[i + 3] = "\n" /\ BlankLineAfter(text, i)

\* Enter has completed the selection of the two Repository items, the first
\* followed in the text by the banner of the second, and of OpenVPN
TwoItemsInOneSection ==
    /\ ItemUnderCursor
    /\ key = <<"Enter">>
    /\ SelectedItems = {11, 14, 15}
    /\ \E i \in PushesOf(generate_commands(App, FALSE), 15) :
          generate_commands(App, FALSE)[i + 3] = BannerOf(14)

-----------------------------------------------------------------------------
(* C19 *)

\* C19: whatever is selected, nothing included, the text generated with
\* reboot ends with the reboot banner, the sleep command and the reboot
\* command; the text generated without reboot holds the "All tasks
\* complete!" banner exactly when an Item is selected, and neither the
\* sleep nor the reboot command.
RebootEndsScript ==
    Alive =>
        LET with == generate_commands(App, TRUE)
            without == generate_commands(App, FALSE)
            n == Len(with)
        IN /\ n >= 3
           /\ with[n - 2] = RebootBanner
           /\ with[n - 1] = SleepCommand
           /\ with[n] = RebootCommand
           /\ Contains(without, CompleteBanner) <=> SelectedItems # {}
           /\ ~Contains(without, SleepCommand)
           /\ ~Contains(without, RebootCommand)

\* 'r' in the Running state has just asked for the script with reboot,
\* nothing being selected
RebootAskedWithNothingSelected ==
    /\ Alive
    /\ key = <<"Char", "r">>
    /\ state = "Finished"
    /\ reboot_requested
    /\ SelectedItems = {}

-----------------------------------------------------------------------------
(* C20 *)

\* C20: a step that enters, stays in or leaves the Finished or the Saving
\* state, the loop still running after it, leaves nav_path, selected_index
\* and the tree as they were, so that they are on the return to the Running
\* state what they were when it was left; and the frame drawn on the return
\* does not move the cursor.
FinishedAndSavingKeepCursor ==
    [][(/\ action_after_exit' = <<>>
        /\ \/ state \in {"Finished", "Saving"}
           \/ state' \in {"Finished", "Saving"}) =>
          /\ nav_path' = nav_path
          /\ selected_index' = selected_index
          /\ menu_tree' = menu_tree
          /\ state' = "Running" =>
                /\ get_visible_nodes(menu_tree', nav_path') =
                      get_visible_nodes(menu_tree, nav_path)
                /\ Drawn'.selected_index = selected_index]_vars

\* Backspace has just brought the Running state back from the Finished
\* state, inside a sub-menu with the cursor below its first entry (back in
\* the Running state leaves the cursor on entry 0 of the menu it returns to)
ReturnedToSubMenu ==
    /\ Alive
    /\ key = <<"Backspace">>
    /\ state = "Running"
    /\ Len(nav_path) > 1
    /\ selected_index > 0

-----------------------------------------------------------------------------
(* C21 *)

\* C21: the Finished state is entered from the Running state with 'i' or
\* 'r' only, and reboot_requested is then true exactly for 'r'; no step taken
\* in the Finished or the Saving state, the loop still running after it,
\* changes reboot_requested; the script run_app returns to be run, the
\* script Enter writes in the Saving state and the script main writes to
\* its file and runs are generate_commands(reboot_requested) of the tree as
\* it is when the key is handled, and the tree is the same after the save.
ScriptIsGeneratedForRebootRequested ==
    [][/\ (state = "Running" /\ state' = "Finished") =>
             /\ key' \in {<<"Char", "i">>, <<"Char", "r">>}
             /\ reboot_requested' = (key' = <<"Char", "r">>)
       /\ (state \in {"Finished", "Saving"} /\ action_after_exit' = <<>>) =>
             reboot_requested' = reboot_requested
       /\ (Alive /\ action_after_exit' # <<>> /\ action_after_exit'[1] = "RunScript") =>
             action_after_exit'[2] = generate_commands(App, reboot_requested)
       /\ (Alive /\ action_after_exit' = <<>> /\ state = "Saving" /\ key' = <<"Enter">>) =>
             /\ fs_write' # <<>>
             /\ fs_write'.contents = generate_commands(App, reboot_requested)
             /\ menu_tree' = menu_tree
       /\ (~Alive /\ script_status' # script_status) =>
             /\ fs_write' # <<>>
             /\ fs_write'.contents = action_after_exit[2]]_vars

\* Enter in the Saving state has just written the script with the reboot
\* commands for a selection of Items, the Finished state having been
\* entered with 'r'
SavedScriptWithReboot ==
    /\ Alive
    /\ key = <<"Enter">>
    /\ state = "Finished"
    /\ fs_write # <<>>
    /\ fs_write.path = "r"
    /\ reboot_requested
    /\ Cardinality(SelectedItems) >= 2
    /\ Contains(fs_write.contents, RebootCommand)
    /\ save_status_message = <<"Saved to r">>

====
